---------------------------- MODULE Spec2Model ----------------------------
(***************************************************************************)
(* Model of the bonus bot (src/unnamed/part_000, with src/bot.js as the    *)
(* older variant of the same handlers).                                    *)
(*                                                                         *)
(* Text is a sequence of one-character strings, so that cleanText, the     *)
(* three extractors and the keyword tests of processLog are computed       *)
(* character by character, the way the regular expressions of the source   *)
(* compute them.                                                           *)
(***************************************************************************)
EXTENDS Integers, Sequences, FiniteSets, TLC

(***************************************************************************)
(* Characters and character classes of the regular expressions.            *)
(***************************************************************************)
LowerAlpha ==
  <<"a","b","c","d","e","f","g","h","i","j","k","l","m",
    "n","o","p","q","r","s","t","u","v","w","x","y","z">>

UpperAlpha ==
  <<"A","B","C","D","E","F","G","H","I","J","K","L","M",
    "N","O","P","Q","R","S","T","U","V","W","X","Y","Z">>

DigitChars == <<"0","1","2","3","4","5","6","7","8","9">>

\* \s of the regular expressions, and what trim() removes
Whitespace == {" ", "\t", "\n"}

\* the grave accent (the inline-code delimiter), which a string literal of the
\* language cannot hold, is the one character written as a name
Backtick == "grave"

\* the characters cleanText deletes: the asterisk (doubled or single), the
\* grave accent, the underscore and the tilde
Markup == {"*", Backtick, "_", "~"}

IsSpace(c) == c \in Whitespace

IsLower(c) == \E i \in 1..26 : LowerAlpha[i] = c

IsUpper(c) == \E i \in 1..26 : UpperAlpha[i] = c

\* [A-Z] under the /i flag
IsLetter(c) == IsLower(c) \/ IsUpper(c)

\* \d
IsDigit(c) == \E i \in 1..10 : DigitChars[i] = c

DigitVal(c) == (CHOOSE i \in 1..10 : DigitChars[i] = c) - 1

toLowerChar(c) ==
  IF IsUpper(c) THEN LowerAlpha[CHOOSE i \in 1..26 : UpperAlpha[i] = c] ELSE c

toUpperChar(c) ==
  IF IsLower(c) THEN UpperAlpha[CHOOSE i \in 1..26 : LowerAlpha[i] = c] ELSE c

toLowerCase(t) == [i \in 1..Len(t) |-> toLowerChar(t[i])]

toUpperCase(t) == [i \in 1..Len(t) |-> toUpperChar(t[i])]

\* String.prototype.includes
includes(t, pat) ==
  \E i \in 1..(Len(t) - Len(pat) + 1) : SubSeq(t, i, i + Len(pat) - 1) = pat

\* pat occurs in t starting at index i
At(t, i, pat) ==
  /\ i >= 1
  /\ i + Len(pat) - 1 <= Len(t)
  /\ SubSeq(t, i, i + Len(pat) - 1) = pat

NotMarkup(c) == c \notin Markup

NotSpace(c) == ~IsSpace(c)

RECURSIVE trimStart(_)
trimStart(t) ==
  IF t # <<>> /\ IsSpace(Head(t)) THEN trimStart(Tail(t)) ELSE t

RECURSIVE trimEnd(_)
trimEnd(t) ==
  IF t # <<>> /\ IsSpace(t[Len(t)]) THEN trimEnd(SubSeq(t, 1, Len(t) - 1)) ELSE t

trim(t) == trimEnd(trimStart(t))

\* cleanText: delete the markup characters, then trim
cleanText(text) == trim(SelectSeq(text, NotMarkup))

\* \s* from index i: the index of the first character at or after i that is
\* not whitespace (Len(t) + 1 when there is none)
RECURSIVE SkipSpace(_, _)
SkipSpace(t, i) ==
  IF i <= Len(t) /\ IsSpace(t[i]) THEN SkipSpace(t, i + 1) ELSE i

\* \d* from index i: the index after the run of digits starting at i
RECURSIVE SkipDigits(_, _)
SkipDigits(t, i) ==
  IF i <= Len(t) /\ IsDigit(t[i]) THEN SkipDigits(t, i + 1) ELSE i

AllIn(t, from, to, Class(_)) ==
  /\ from >= 1
  /\ to <= Len(t)
  /\ \A k \in from..to : Class(t[k])

(***************************************************************************)
(* \[\s*([A-Z]{3}\s*\d{5})\s*\] anchored at index i.  The classes of       *)
(* consecutive parts are disjoint, so the greedy match is the only one.    *)
(* The result is <<first, last, end>>: the captured group is               *)
(* t[first..last] and end is the index after the closing bracket; <<>>     *)
(* when the pattern does not match at i.                                   *)
(***************************************************************************)
MatchBracketAt(t, i) ==
  IF i < 1 \/ i > Len(t) \/ t[i] # "["
  THEN <<>>
  ELSE LET a == SkipSpace(t, i + 1)
           d == SkipSpace(t, a + 3)
           e == SkipSpace(t, d + 5)
       IN  IF /\ AllIn(t, a, a + 2, IsLetter)
              /\ AllIn(t, d, d + 4, IsDigit)
              /\ e <= Len(t)
              /\ t[e] = "]"
           THEN <<a, d + 4, e + 1>>
           ELSE <<>>

\* leftmost index at which the bracket pattern matches, 0 when none
FirstBracket(t) ==
  LET hits == {i \in 1..Len(t) : MatchBracketAt(t, i) # <<>>}
  IN  IF hits = {} THEN 0 ELSE CHOOSE i \in hits : \A j \in hits : i <= j

\* the value null of the source
Null == <<"null">>

\* extractDNI: first bracketed identifier of the cleaned text, whitespace
\* removed, upper-cased; Null when there is none
extractDNI(text) ==
  LET cleanedText == cleanText(text)
      i == FirstBracket(cleanedText)
  IN  IF i = 0
      THEN Null
      ELSE LET m == MatchBracketAt(cleanedText, i)
           IN  toUpperCase(SelectSeq(SubSeq(cleanedText, m[1], m[2]), NotSpace))

(***************************************************************************)
(* Numbers.  The numbers of the source are IEEE 754 binary64 values: the   *)
(* result of parseInt is rounded to 53 significant bits, and in            *)
(* Math.round(totalSales * (bonusPercentage / 100)) the quotient is, then  *)
(* the product is.                                                         *)
(* A natural number is the sequence of its bits, least significant first,  *)
(* without high zeros (<<>> is 0), so that 53-bit significands and their   *)
(* products are exact; a binary64 value is [m, e], standing for m * 2^e.   *)
(***************************************************************************)
Precision == 53

RECURSIVE Bits(_)
Bits(n) == IF n = 0 THEN <<>> ELSE <<n % 2>> \o Bits(n \div 2)

RECURSIVE Value(_)
Value(b) == IF b = <<>> THEN 0 ELSE b[1] + 2 * Value(Tail(b))

RECURSIVE Normalize(_)
Normalize(b) ==
  IF b # <<>> /\ b[Len(b)] = 0 THEN Normalize(SubSeq(b, 1, Len(b) - 1)) ELSE b

Zeros(k) == [i \in 1..k |-> 0]

\* b * 2^k
ShiftLeft(b, k) == IF b = <<>> THEN <<>> ELSE Zeros(k) \o b

\* floor(b / 2^k)
ShiftRight(b, k) == IF k >= Len(b) THEN <<>> ELSE SubSeq(b, k + 1, Len(b))

RECURSIVE MulCarry(_, _, _)
MulCarry(b, k, carry) ==
  IF b = <<>>
  THEN Bits(carry)
  ELSE LET s == b[1] * k + carry
       IN  <<s % 2>> \o MulCarry(Tail(b), k, s \div 2)

\* b * k for a small natural k
MulSmall(b, k) == Normalize(MulCarry(b, k, 0))

RECURSIVE AddCarry(_, _, _)
AddCarry(a, b, carry) ==
  IF a = <<>> /\ b = <<>>
  THEN Bits(carry)
  ELSE LET x == IF a = <<>> THEN 0 ELSE a[1]
           y == IF b = <<>> THEN 0 ELSE b[1]
           s == x + y + carry
       IN  <<s % 2>> \o AddCarry(IF a = <<>> THEN <<>> ELSE Tail(a),
                                 IF b = <<>> THEN <<>> ELSE Tail(b),
                                 s \div 2)

Add(a, b) == Normalize(AddCarry(a, b, 0))

\* long division of b by a small d, from the most significant bit: the
\* quotient bit and the remainder of the i-th step and of every later one, rem
\* being the remainder carried in
RECURSIVE DivStep(_, _, _, _)
DivStep(b, i, d, rem) ==
  IF i > Len(b)
  THEN <<>>
  ELSE LET cur == 2 * rem + b[Len(b) + 1 - i]
       IN  IF cur < d
           THEN <<[q |-> 0, r |-> cur]>> \o DivStep(b, i + 1, d, cur)
           ELSE <<[q |-> 1, r |-> cur - d]>> \o DivStep(b, i + 1, d, cur - d)

DivSmall(b, d) ==
  LET steps == DivStep(b, 1, d, 0)
      n     == Len(steps)
  IN  [q |-> Normalize([i \in 1..n |-> steps[n + 1 - i].q]),
       r |-> IF n = 0 THEN 0 ELSE steps[n].r]

\* n * 2^e (plus a positive amount below one unit of n when sticky) rounded
\* to Precision significant bits, ties to even
RoundToDouble(n, e, sticky) ==
  IF Len(n) <= Precision
  THEN [m |-> n, e |-> e]
  ELSE LET drop  == Len(n) - Precision
           top   == SubSeq(n, drop + 1, Len(n))
           guard == n[drop]
           rest  == sticky \/ \E i \in 1..(drop - 1) : n[i] = 1
           up    == guard = 1 /\ (rest \/ top[1] = 1)
       IN  [m |-> IF up THEN Add(top, <<1>>) ELSE top, e |-> e + drop]

\* extra quotient bits computed before rounding a division
DivScale == 60

\* a / d in binary64, for small naturals a and d (both exact in binary64)
DoubleDiv(a, d) ==
  LET qr == DivSmall(ShiftLeft(Bits(a), DivScale), d)
  IN  RoundToDouble(qr.q, -DivScale, qr.r # 0)

\* t * x in binary64, for a small natural t
DoubleMul(t, x) == RoundToDouble(MulSmall(x.m, t), x.e, FALSE)

\* Math.round of a binary64 value that is not negative: the nearest integer,
\* a tie going up
MathRound(x) ==
  IF x.e >= 0
  THEN Value(ShiftLeft(x.m, x.e))
  ELSE Value(ShiftRight(Add(x.m, ShiftLeft(<<1>>, -x.e - 1)), -x.e))

(***************************************************************************)
(* /\$\s*(\d+(?:,\d{3})*(?:\.\d{2})?)/ : the digits of the integer part    *)
(* of the leftmost match.  parseInt stops at the first character that is   *)
(* not a digit, so after the commas are removed the optional ".dd" does    *)
(* not contribute.                                                         *)
(***************************************************************************)
\* an integer part that ends at the first comma
ThousandGroupsNone(t, i) == <<>>

\* (?:,\d{3})* from index i, greedy: the digits of the groups
RECURSIVE ThousandGroups(_, _)
ThousandGroups(t, i) ==
  IF i <= Len(t) /\ t[i] = "," /\ AllIn(t, i + 1, i + 3, IsDigit)
  THEN SubSeq(t, i + 1, i + 3) \o ThousandGroups(t, i + 4)
  ELSE <<>>

\* the pattern matches at i: "$", optional whitespace, at least one digit
MatchAmountAt(t, i) ==
  /\ i <= Len(t)
  /\ t[i] = "$"
  /\ LET j == SkipSpace(t, i + 1) IN j <= Len(t) /\ IsDigit(t[j])

\* the natural number a string of decimal digits denotes
RECURSIVE DecimalBits(_)
DecimalBits(ds) ==
  IF ds = <<>>
  THEN <<>>
  ELSE Add(MulSmall(DecimalBits(SubSeq(ds, 1, Len(ds) - 1)), 10),
           Bits(DigitVal(ds[Len(ds)])))

\* parseInt of a string of digits: the number it denotes, as a binary64 value
parseInt(ds) == RoundToDouble(DecimalBits(ds), 0, FALSE)

\* the binary64 value 0
Zero == [m |-> <<>>, e |-> 0]

\* the natural number a binary64 value without a fraction stands for
ToInteger(x) == ShiftLeft(x.m, x.e)

\* match[1].replace(/,/g, '') up to its first character that is not a digit:
\* the characters parseInt reads; <<>> when the pattern does not match
AmountDigits(text) ==
  LET cleanedText == cleanText(text)
      hits == {i \in 1..Len(cleanedText) : MatchAmountAt(cleanedText, i)}
  IN  IF hits = {}
      THEN <<>>
      ELSE LET i == CHOOSE h \in hits : \A g \in hits : h <= g
               j == SkipSpace(cleanedText, i + 1)
               k == SkipDigits(cleanedText, j)
           IN  SubSeq(cleanedText, j, k - 1) \o ThousandGroups(cleanedText, k)

\* extractAmount, as the binary64 value it returns
extractAmountDouble(text) ==
  IF AmountDigits(text) = <<>> THEN Zero ELSE parseInt(AmountDigits(text))

\* extractAmount, for a text whose amount is an integer of the model
extractAmount(text) == Value(ToInteger(extractAmountDouble(text)))

(***************************************************************************)
(* /\[\s*[A-Z]{3}\s*\d{5}\s*\]\s+([^h]+?)(?:\s+ha\s+(?:retirado|guardado|  *)
(* enviado))/i                                                             *)
(***************************************************************************)
Verbs ==
  { <<"r","e","t","i","r","a","d","o">>,
    <<"g","u","a","r","d","a","d","o">>,
    <<"e","n","v","i","a","d","o">> }

\* [^h] under the /i flag
NotH(c) == c # "h" /\ c # "H"

\* (?:\s+ha\s+(?:retirado|guardado|enviado)) anchored at index q,
\* case-insensitive
VerbPhraseAt(t, q) ==
  LET lt == toLowerCase(t)
      a  == SkipSpace(lt, q)
      b  == SkipSpace(lt, a + 2)
  IN  /\ q <= Len(lt)
      /\ a > q
      /\ At(lt, a, <<"h","a">>)
      /\ b > a + 2
      /\ \E v \in Verbs : At(lt, b, v)

(***************************************************************************)
(* The name pattern anchored at a bracket match ending before index e.     *)
(* \s+ is greedy (longest run first, then shorter), ([^h]+?) is lazy       *)
(* (shortest first); the first pair in that order whose tail matches is    *)
(* the match.  The result is <<p, q>>, the capture being t[p..q-1], or     *)
(* <<>>.                                                                   *)
(***************************************************************************)
NameMatchFrom(t, e) ==
  LET ws == SkipSpace(t, e)
      cands == { pq \in (e + 1..ws) \X (e + 2..Len(t) + 1) :
                   /\ pq[1] < pq[2]
                   /\ AllIn(t, pq[1], pq[2] - 1, NotH)
                   /\ VerbPhraseAt(t, pq[2]) }
  IN  IF cands = {}
      THEN <<>>
      ELSE CHOOSE pq \in cands :
             \A o \in cands :
               \/ pq[1] > o[1]
               \/ (pq[1] = o[1] /\ pq[2] <= o[2])

\* extractName: the trimmed capture of the leftmost match; Null when none
extractName(text) ==
  LET cleanedText == cleanText(text)
      hits == { i \in 1..Len(cleanedText) :
                  /\ MatchBracketAt(cleanedText, i) # <<>>
                  /\ NameMatchFrom(cleanedText,
                                   MatchBracketAt(cleanedText, i)[3]) # <<>> }
  IN  IF hits = {}
      THEN Null
      ELSE LET i  == CHOOSE h \in hits : \A g \in hits : h <= g
               pq == NameMatchFrom(cleanedText,
                                   MatchBracketAt(cleanedText, i)[3])
           IN  trim(SubSeq(cleanedText, pq[1], pq[2] - 1))

(***************************************************************************)
(* Bounds of the model.                                                    *)
(***************************************************************************)
\* messages ever posted in the log channel
MaxMsgs == 1

\* commands ever sent in the bonus channel
MaxCmds == 2

\* clock ticks the model lets pass after startup
MaxAdvance == 1

\* clock ticks in one minute (the polling interval of the scheduler)
MinuteLen == 1

\* page size of the history source (100 in the source), scaled down
PageSize == 2

\* largest count "!leer cantidad" accepts (1000 in the source), scaled down
MaxLimit == 2

(***************************************************************************)
(* The message texts the environment sends.                                *)
(***************************************************************************)
\* a plain sale line
TextSale ==
  <<"h","a"," ","p","a","g","a","d","o"," ","u","n","a"," ","f","a","c","t",
    "u","r","a"," ","d","e"," ","[","A","B","C","1","2","3","4","5","]"," ",
    "$","1","5","0">>

\* a sale line with another amount and another bracketed identifier between
\* the keyword and "de [ABC12345]"
TextSaleGaps ==
  <<"h","a"," ","p","a","g","a","d","o"," ","u","n","a"," ","f","a","c","t",
    "u","r","a"," ","d","e"," ","$","2","0"," ","a"," ","[","X","Y","Z","9",
    "9","9","9","9","]"," ","d","e"," ","[","A","B","C","1","2","3","4","5",
    "]"," ","t","o","t","a","l"," ","$","1","5","0">>

\* a name line, with markup, a lower-case identifier and a formatted amount
TextName ==
  <<"*","*","[","a","b","c"," ","1","2","3","4","5","]","*","*"," ","A","n",
    "a"," ","h","a"," ","r","e","t","i","r","a","d","o"," ",Backtick,"$","1",
    ",","2","3","4",".","9","9",Backtick>>

\* a sale candidate whose amount is zero and which also reads as a name line
TextSaleNoAmount ==
  <<"[","A","B","C","1","2","3","4","5","]"," ","E","v","a"," ","h","a"," ",
    "g","u","a","r","d","a","d","o"," ","y"," ","h","a"," ","p","a","g","a",
    "d","o"," ","u","n","a"," ","f","a","c","t","u","r","a"," ","d","e"," ",
    "["," ","$","0">>

\* the identifier the sale lines name after "de ["
ABC12345 == <<"A","B","C","1","2","3","4","5">>

\* noise
TextNoise == <<"h","o","l","a">>

Texts == <<TextSale, TextSaleGaps, TextName, TextSaleNoAmount, TextNoise>>

(***************************************************************************)
(* Messages.  content is an index into Texts, createdAt a clock value, id  *)
(* a pair: <<"msg", k>> for the k-th message of the log channel and        *)
(* <<"test", t>> for the mock message "!testlog" builds at time t.         *)
(***************************************************************************)
KwPagado ==
  <<"h","a"," ","p","a","g","a","d","o"," ","u","n","a"," ","f","a","c","t",
    "u","r","a">>

KwDe == <<"d","e"," ","[">>

KwRetirado == <<"h","a"," ","r","e","t","i","r","a","d","o">>

KwGuardado == <<"h","a"," ","g","u","a","r","d","a","d","o">>

KwEnviado == <<"h","a"," ","e","n","v","i","a","d","o">>

\* the first test of processLog: the line is a sale candidate
IsSaleCandidate(content) ==
  LET lc == toLowerCase(cleanText(content))
  IN  includes(lc, KwPagado) /\ includes(lc, KwDe)

\* the second test of processLog: the line is a name candidate
IsNameCandidate(content) ==
  LET lc == toLowerCase(cleanText(content))
  IN  includes(lc, KwRetirado) \/ includes(lc, KwGuardado) \/ includes(lc, KwEnviado)

(***************************************************************************)
(* The aggregate.  employees is the object of the source as the sequence   *)
(* of its entries in insertion order (the order Object.entries yields for  *)
(* keys that are not integers); each entry holds dni, name and sales.      *)
(***************************************************************************)
IndexOf(emps, dni) ==
  IF \E i \in 1..Len(emps) : emps[i].dni = dni
  THEN CHOOSE i \in 1..Len(emps) : emps[i].dni = dni
  ELSE 0

\* recordSale replacing the sales of the employee by the new one
recordSaleOverwrite(emps, dni, amount, message) ==
  LET created == IF IndexOf(emps, dni) = 0
                 THEN Append(emps, [dni |-> dni, name |-> dni, sales |-> <<>>])
                 ELSE emps
      i == IndexOf(created, dni)
  IN  [created EXCEPT ![i].sales =
         <<[amount    |-> amount,
            date      |-> message.createdAt,
            messageId |-> message.id]>>]

\* recordSale skipping a message the employee already has an event of
recordSaleOnce(emps, dni, amount, message) ==
  LET created == IF IndexOf(emps, dni) = 0
                 THEN Append(emps, [dni |-> dni, name |-> dni, sales |-> <<>>])
                 ELSE emps
      i == IndexOf(created, dni)
  IN  IF \E j \in 1..Len(created[i].sales) :
           created[i].sales[j].messageId = message.id
      THEN created
      ELSE [created EXCEPT ![i].sales =
              Append(@, [amount    |-> amount,
                         date      |-> message.createdAt,
                         messageId |-> message.id])]

\* lines 117-130: create the employee if absent, push the sale
recordSale(emps, dni, amount, message) ==
  LET created == IF IndexOf(emps, dni) = 0
                 THEN Append(emps, [dni |-> dni, name |-> dni, sales |-> <<>>])
                 ELSE emps
      i == IndexOf(created, dni)
  IN  [created EXCEPT ![i].sales =
         Append(@, [amount    |-> amount,
                    date      |-> message.createdAt,
                    messageId |-> message.id])]

\* updateName replacing the record of the employee by a new one
updateNameReset(emps, dni, name) ==
  IF IndexOf(emps, dni) = 0
  THEN Append(emps, [dni |-> dni, name |-> name, sales |-> <<>>])
  ELSE [emps EXCEPT ![IndexOf(emps, dni)] =
          [dni |-> dni, name |-> name, sales |-> <<>>]]

\* lines 149-153: create the employee with the name, or overwrite the name
updateName(emps, dni, name) ==
  IF IndexOf(emps, dni) = 0
  THEN Append(emps, [dni |-> dni, name |-> name, sales |-> <<>>])
  ELSE [emps EXCEPT ![IndexOf(emps, dni)].name = name]

\* line 125: employees[dni].sales.push throws a TypeError when the record of
\* dni exists and has no sales, as a record read from a snapshot file that
\* holds none for it (line 40 takes data.employees as it is)
pushThrows(emps, dni) ==
  /\ IndexOf(emps, dni) # 0
  /\ "sales" \notin DOMAIN emps[IndexOf(emps, dni)]

\* a string is truthy when it is neither null nor empty
Truthy(s) == s # Null /\ s # <<>>

\* what processLog computes from the content of a message: the two keyword
\* tests and the three extractions
Extract(content) ==
  [sale     |-> IsSaleCandidate(content),
   naming   |-> IsNameCandidate(content),
   dni      |-> extractDNI(content),
   amount   |-> extractAmount(content),
   name     |-> extractName(content)]

\* Extract of every text of Texts, computed once
Extracted == [c \in DOMAIN Texts |-> Extract(Texts[c])]

(***************************************************************************)
(* processLog: the employees after the call, the value returned, whether   *)
(* saveData was called, and whether the call threw.  The first if returns  *)
(* when it records a sale; otherwise control falls through to the second   *)
(* if.  The call throws at line 125 when the record of the employee has no *)
(* sales list, before anything is changed.  processLogOn is the body of    *)
(* processLog, x being what it extracts from the message.                  *)
(***************************************************************************)
processLogOn(emps, message, x) ==
  IF x.sale /\ Truthy(x.dni) /\ x.amount > 0
  THEN IF pushThrows(emps, x.dni)
       THEN [employees |-> emps, ret |-> FALSE, saved |-> FALSE,
             threw |-> TRUE]
       ELSE [employees |-> recordSale(emps, x.dni, x.amount, message),
             ret |-> TRUE, saved |-> TRUE, threw |-> FALSE]
  ELSE IF x.naming /\ Truthy(x.dni) /\ Truthy(x.name)
  THEN [employees |-> updateName(emps, x.dni, x.name),
        ret |-> FALSE, saved |-> TRUE, threw |-> FALSE]
  ELSE [employees |-> emps, ret |-> FALSE, saved |-> FALSE, threw |-> FALSE]

processLog(emps, message) ==
  processLogOn(emps, message, Extracted[message.content])

\* the replay loop counting every message it runs
replayCountAll(acc, r) ==
  [employees |-> r.employees,
   processed |-> acc.processed + 1,
   snaps     |-> acc.snaps \o (IF r.saved THEN <<r.employees>> ELSE <<>>),
   threw     |-> r.threw]

\* the replay loop of "!leer" (lines 366-375) after one more message, r being
\* what processLog gave for it: the employees, the number of calls that
\* returned true, the aggregates saveData was called with, and whether the
\* call threw
replayCount(acc, r) ==
  [employees |-> r.employees,
   processed |-> acc.processed + (IF r.ret THEN 1 ELSE 0),
   snaps     |-> acc.snaps \o (IF r.saved THEN <<r.employees>> ELSE <<>>),
   threw     |-> r.threw]

\* the element of a set of one element
Only(S) == CHOOSE x \in S : TRUE

\* the loop stands inside the try of lines 320-398 and has no try of its
\* own: a call that throws ends it
RECURSIVE replayFrom(_, _)
replayFrom(acc, msgs) ==
  IF msgs = <<>> \/ acc.threw
  THEN acc
  ELSE Only({replayFrom(next, Tail(msgs)) :
               next \in {replayCount(acc, r) :
                           r \in {processLog(acc.employees, Head(msgs))}}})

\* processLog over a list of messages, in order
replay(emps, msgs) ==
  replayFrom([employees |-> emps, processed |-> 0, snaps |-> <<>>,
              threw |-> FALSE], msgs)

\* resetWeek that does not take the current time
resetWeekEpoch(t) == [employees |-> <<>>, weekStartDate |-> 0]

\* resetWeek at time t
resetWeek(t) == [employees |-> <<>>, weekStartDate |-> t]

\* the snapshot saveData writes: JSON.stringify keeps the strings and the
\* finite numbers of the aggregate as they are, and toISOString keeps the
\* period start to the millisecond
Snapshot(emps, wsd) == [employees |-> emps, weekStartDate |-> wsd]

\* the snapshot file before the first write
NoFile == [employees |-> <<>>, weekStartDate |-> -1]

\* bonusPercentage / 100 for every percentage "!porcentaje" accepts, computed
\* once
Rate == [pct \in 0..100 |-> DoubleDiv(pct, 100)]

\* line 168
bonusOf(totalSales, bonusPercentage) ==
  MathRound(DoubleMul(totalSales, Rate[bonusPercentage]))

RECURSIVE SumAmounts(_)
SumAmounts(sales) ==
  IF sales = <<>> THEN 0 ELSE Head(sales).amount + SumAmounts(Tail(sales))

\* one line of calculateTotals (lines 167-176)
TotalsLine(emp, pct) ==
  [dni        |-> emp.dni,
   name       |-> emp.name,
   salesCount |-> Len(emp.sales),
   totalSales |-> SumAmounts(emp.sales),
   bonus      |-> bonusOf(SumAmounts(emp.sales), pct)]

\* a sort that places a line before the lines of equal total already placed
RECURSIVE InsertLineBeforeTies(_, _)
InsertLineBeforeTies(sorted, line) ==
  IF sorted = <<>> \/ Head(sorted).totalSales <= line.totalSales
  THEN <<line>> \o sorted
  ELSE <<Head(sorted)>> \o InsertLineBeforeTies(Tail(sorted), line)

\* results.sort((a, b) => b.totalSales - a.totalSales): a stable sort, so a
\* line goes after every line already placed whose total is not smaller
RECURSIVE InsertLine(_, _)
InsertLine(sorted, line) ==
  IF sorted = <<>> \/ Head(sorted).totalSales < line.totalSales
  THEN <<line>> \o sorted
  ELSE <<Head(sorted)>> \o InsertLine(Tail(sorted), line)

RECURSIVE SortLines(_, _)
SortLines(sorted, lines) ==
  IF lines = <<>>
  THEN sorted
  ELSE SortLines(InsertLine(sorted, Head(lines)), Tail(lines))

calculateTotals(emps, pct) ==
  SortLines(<<>>, [i \in 1..Len(emps) |-> TotalsLine(emps[i], pct)])

(***************************************************************************)
(* The clock.  A clock value counts ticks of 1/MinuteLen minute from       *)
(* Sunday 00:00 in the configured time zone; the model starts one tick     *)
(* before the minute of the weekly close, one polling interval after the   *)
(* bot did, so that the scheduler callback is due.                         *)
(***************************************************************************)
\* line 456: getDay() === 0, getHours() === 23, getMinutes() === 0
CloseDay == 0

CloseHour == 23

CloseMinute == 0

MinutesPerDay == 24 * 60

MinutesPerWeek == 7 * MinutesPerDay

MinuteOfWeek(t) == (t \div MinuteLen) % MinutesPerWeek

IsCloseTime(t) ==
  MinuteOfWeek(t) = (CloseDay * 24 + CloseHour) * 60 + CloseMinute

StartTime == ((CloseDay * 24 + CloseHour) * 60 + CloseMinute) * MinuteLen - 1

\* when the bot started: weekStartDate is new Date() at load
BootTime == StartTime - MinuteLen

\* line 12: parseInt(process.env.BONUS_PERCENTAGE) || 20
DefaultPercentage == 20

\* a scheduler callback that closes the week whenever it runs
tickEffectAlways(emps, wsd, t) == resetWeek(t)

\* what the scheduler callback does to the aggregate at time t (lines 456-465)
tickEffect(emps, wsd, t) ==
  IF IsCloseTime(t) THEN resetWeek(t) ELSE [employees |-> emps, weekStartDate |-> wsd]

(***************************************************************************)
(* State.                                                                  *)
(***************************************************************************)
VARIABLES
  employees,        \* the aggregate, in insertion order
  weekStartDate,    \* start of the current period
  bonusPercentage,  \* CONFIG.bonusPercentage
  disk,             \* the snapshot file
  now,              \* the clock
  history,          \* the messages of the log channel, oldest first
  cmds,             \* messages received outside the log channel so far
  nextTick,         \* when the scheduler callback is next due
  leer,             \* the "!leer" handler in flight
  cerrar,           \* the "!cerrar" handler in flight
  testlog,          \* the "!testlog" handler in flight
  report,           \* the lines of the last report generated
  writable,         \* whether writeFileSync succeeds in this run
  probe,            \* the last call of an extractor on a text of its own
  last              \* the handler step taken last

vars ==
  <<employees, weekStartDate, bonusPercentage, disk, now, history, cmds,
    nextTick, leer, cerrar, testlog, report, writable, probe, last>>

\* the message the log channel holds when the bot starts: a sale line posted
\* one tick before Sunday 00:00
InitialHistory == <<[content |-> 1, createdAt |-> -1, bot |-> FALSE]>>

\* the k-th message of the log channel, as processLog receives it
Msg(k) ==
  [content   |-> history[k].content,
   createdAt |-> history[k].createdAt,
   id        |-> <<"msg", k>>]

\* the locals of the "!leer" handler (lines 321-342), with pc its position;
\* size0 is the size of the history at the first fetch and full whether every
\* page so far held all the messages the source could put in it
LeerIdle ==
  [pc |-> "idle", sub |-> "none", startDate |-> 0, limit |-> 0, lastId |-> 0,
   totalFetched |-> 0, messagesToProcess |-> <<>>, processed |-> 0,
   size0 |-> -1, full |-> TRUE]

\* a handler step: its operation, whether the caller was an administrator,
\* the messages it ran through processLog, how many calls returned true, and
\* whether saveData was called
Step(op, admin, msgs, processed, saved) ==
  [op |-> op, admin |-> admin, msgs |-> msgs, processed |-> processed,
   saved |-> saved]

\* no extractor has been called on a text of its own; about is the part of
\* the text the call is to find
NoProbe == [fn |-> "none", text |-> <<>>, about |-> <<>>, out |-> <<>>]

\* the steps that run resetWeek
ResetOps == {"cerrar-reset", "auto-close"}

Init ==
  /\ employees = <<>>
  /\ weekStartDate = BootTime
  /\ bonusPercentage = DefaultPercentage
  /\ disk = NoFile
  /\ now = StartTime
  /\ history = InitialHistory
  /\ cmds = 0
  /\ nextTick = StartTime
  /\ leer = LeerIdle
  /\ cerrar = "idle"
  /\ testlog = <<>>
  /\ report = <<>>
  /\ writable \in BOOLEAN
  /\ probe = NoProbe
  /\ last = Step("start", FALSE, <<>>, 0, FALSE)

\* saveData without the try/catch: a handler ends where the write fails
saveDataFatal(snaps, wsd) ==
  /\ snaps = <<>> \/ writable
  /\ disk' = IF snaps # <<>>
             THEN Snapshot(snaps[Len(snaps)], wsd)
             ELSE disk
  /\ UNCHANGED writable

\* saveData that writes once per handler, after the first mutation
saveDataFirst(snaps, wsd) ==
  /\ disk' = IF writable /\ snaps # <<>>
             THEN Snapshot(snaps[1], wsd)
             ELSE disk
  /\ UNCHANGED writable

\* saveData after the calls that produced the aggregates in snaps, in order:
\* a write that fails is caught and logged, and leaves the file as it was
saveData(snaps, wsd) ==
  /\ disk' = IF writable /\ snaps # <<>>
             THEN Snapshot(snaps[Len(snaps)], wsd)
             ELSE disk
  /\ UNCHANGED writable

(***************************************************************************)
(* messageCreate, log channel (lines 235-241).                             *)
(***************************************************************************)
PostLog(c, bot) ==
  /\ Len(history) - Len(InitialHistory) < MaxMsgs
  /\ history' = Append(history, [content |-> c, createdAt |-> now, bot |-> bot])
  /\ IF bot
     THEN /\ UNCHANGED <<employees, disk, writable>>
          /\ last' = Step("bot", FALSE, <<>>, 0, FALSE)
     ELSE \E message \in {[content |-> c, createdAt |-> now,
                            id |-> <<"msg", Len(history) + 1>>]} :
          \E r \in {processLog(employees, message)} :
            /\ employees' = r.employees
            /\ last' = Step("live", FALSE, <<message>>,
                            IF r.ret THEN 1 ELSE 0, r.saved)
            /\ saveData(IF r.saved THEN <<r.employees>> ELSE <<>>, weekStartDate)
  /\ UNCHANGED <<probe, weekStartDate, bonusPercentage, now, cmds, nextTick, leer,
                 cerrar, testlog, report>>

\* a message in another channel, a message of a bot in the bonus channel, or
\* a message of the bonus channel that does not start with "!" (lines 235-245)
OtherMessage ==
  /\ cmds < MaxCmds
  /\ cmds' = cmds + 1
  /\ last' = Step("other", FALSE, <<>>, 0, FALSE)
  /\ UNCHANGED <<probe, employees, weekStartDate, bonusPercentage, disk, writable, now, history,
                 nextTick, leer, cerrar, testlog, report>>

(***************************************************************************)
(* Commands of the bonus channel.                                          *)
(***************************************************************************)
\* !test, !ping, !ayuda, !help, and a command the bot does not know
CmdInfo(admin) ==
  /\ cmds < MaxCmds
  /\ cmds' = cmds + 1
  /\ last' = Step("info", admin, <<>>, 0, FALSE)
  /\ UNCHANGED <<probe, employees, weekStartDate, bonusPercentage, disk, writable, now, history,
                 nextTick, leer, cerrar, testlog, report>>

\* !reporte (lines 295-298)
CmdReporte(admin) ==
  /\ cmds < MaxCmds
  /\ cmds' = cmds + 1
  /\ report' = calculateTotals(employees, bonusPercentage)
  /\ last' = Step("reporte", admin, <<>>, 0, FALSE)
  /\ UNCHANGED <<probe, employees, weekStartDate, bonusPercentage, disk, writable, now, history,
                 nextTick, leer, cerrar, testlog>>

\* !testlog up to its first await (lines 271-283); c = 0 is the empty text
CmdTestlog(admin, c) ==
  /\ cmds < MaxCmds
  /\ testlog = <<>>
  /\ cmds' = cmds + 1
  /\ testlog' = IF c = 0
                THEN <<>>
                ELSE <<[admin |-> admin,
                        message |-> [content |-> c, createdAt |-> now,
                                     id |-> <<"test", now>>]]>>
  /\ last' = Step("testlog", admin, <<>>, 0, FALSE)
  /\ UNCHANGED <<probe, employees, weekStartDate, bonusPercentage, disk, writable, now, history,
                 nextTick, leer, cerrar, report>>

\* !testlog after the reply (lines 285-291)
TestlogRun ==
  /\ testlog # <<>>
  /\ \E r \in {processLog(employees, testlog[1].message)} :
         /\ employees' = r.employees
         /\ last' = Step("testlog-run", testlog[1].admin, <<testlog[1].message>>,
                         IF r.ret THEN 1 ELSE 0, r.saved)
         /\ saveData(IF r.saved THEN <<r.employees>> ELSE <<>>, weekStartDate)
  /\ testlog' = <<>>
  /\ UNCHANGED <<probe, weekStartDate, bonusPercentage, now, history, cmds, nextTick, leer, cerrar,
                 report>>

\* the texts a caller writes after "!testlog"; 0 is the empty text
TestlogInputs == {0, 1, 3}

\* what the caller may write after "!porcentaje"; 101 is out of range
PercentageInputs == {29, 101}

\* the value "!porcentaje" leaves in CONFIG.bonusPercentage (lines 416-425)
porcentaje(pct, admin, newPct) ==
  IF admin /\ newPct >= 0 /\ newPct <= 100 THEN newPct ELSE pct

CmdPorcentaje(admin, newPct) ==
  /\ cmds < MaxCmds
  /\ cmds' = cmds + 1
  /\ bonusPercentage' = porcentaje(bonusPercentage, admin, newPct)
  /\ last' = Step("porcentaje", admin, <<>>, 0, FALSE)
  /\ UNCHANGED <<probe, employees, weekStartDate, disk, writable, now, history, nextTick, leer,
                 cerrar, testlog, report>>

(***************************************************************************)
(* !leer (lines 301-399).                                                  *)
(***************************************************************************)
\* Sunday 00:00, the cutoff "!leer fecha" of that Sunday's date gives
Today == 0

\* what an administrator may write after "!leer"
LeerArgs ==
  {[sub |-> "fecha", valid |-> TRUE, value |-> Today],
   [sub |-> "fecha", valid |-> FALSE, value |-> 0],
   [sub |-> "otro", valid |-> FALSE, value |-> 0]}
  \cup {[sub |-> "cantidad", valid |-> TRUE, value |-> n] : n \in 0..MaxLimit + 1}

\* lines 309-338: the arguments pass validation
LeerArgsOk(args) ==
  \/ args.sub = "fecha" /\ args.valid
  \/ args.sub = "cantidad" /\ args.value >= 1 /\ args.value <= MaxLimit

CmdLeer(admin, args) ==
  /\ cmds < MaxCmds
  /\ leer.pc = "idle"
  /\ cmds' = cmds + 1
  /\ IF admin /\ LeerArgsOk(args)
     THEN leer' = [LeerIdle EXCEPT
                     !.pc = "fetch",
                     !.sub = args.sub,
                     !.startDate = IF args.sub = "fecha" THEN args.value ELSE 0,
                     !.limit = IF args.sub = "cantidad" THEN args.value ELSE 0]
     ELSE leer' = LeerIdle
  /\ last' = Step("leer", admin, <<>>, 0, FALSE)
  /\ UNCHANGED <<probe, employees, weekStartDate, bonusPercentage, disk, writable, now, history,
                 nextTick, cerrar, testlog, report>>

Min(a, b) == IF a <= b THEN a ELSE b

\* the collected messages as they were fetched, newest first
ReverseNone(s) == s

Reverse(s) == [i \in 1..Len(s) |-> s[Len(s) + 1 - i]]

\* the for loop over one page without the break on the limit
RECURSIVE ConsumePageAll(_, _, _, _, _)
ConsumePageAll(page, i, frame, msgs, total) ==
  IF i > Len(page)
  THEN [msgs |-> msgs, total |-> total]
  ELSE IF frame.sub = "fecha" /\ history[page[i]].createdAt < frame.startDate
  THEN ConsumePageAll(page, i + 1, frame, msgs, total)
  ELSE ConsumePageAll(page, i + 1, frame, Append(msgs, page[i]), total + 1)

\* the for loop over one page (lines 351-358), from its i-th message on:
\* messagesToProcess and totalFetched after it
RECURSIVE ConsumePage(_, _, _, _, _)
ConsumePage(page, i, frame, msgs, total) ==
  IF i > Len(page)
  THEN [msgs |-> msgs, total |-> total]
  ELSE IF frame.sub = "fecha" /\ history[page[i]].createdAt < frame.startDate
  THEN ConsumePage(page, i + 1, frame, msgs, total)
  ELSE IF frame.limit > 0 /\ total + 1 >= frame.limit
  THEN [msgs |-> Append(msgs, page[i]), total |-> total + 1]
  ELSE ConsumePage(page, i + 1, frame, Append(msgs, page[i]), total + 1)

\* the fetch loop asking again for the page it has just read
LastIdKept(frame, page, n) == frame.lastId

\* line 363: lastId = msgs.last().id, the oldest message of the page
LastId(frame, page, n) == page[n]

\* one turn of the fetch loop (lines 344-364): a page of n messages arrives,
\* newest first, of those older than lastId.  The source may return fewer
\* messages than it holds; full records that it never did.  When the loop
\* ends the replay (lines 366-375) runs in the same step, there being no
\* await between them.
LeerFetch ==
  /\ leer.pc = "fetch"
  /\ \E avail \in {IF leer.lastId = 0 THEN Len(history) ELSE leer.lastId - 1} :
     \E n \in 0..Min(PageSize, avail) :
     \E page \in {[j \in 1..n |-> avail + 1 - j]} :
     \E c \in {ConsumePage(page, 1, leer, leer.messagesToProcess,
                           leer.totalFetched)} :
     \E full \in {leer.full /\ n = Min(PageSize, avail)} :
     \E size0 \in {IF leer.size0 = -1 THEN Len(history) ELSE leer.size0} :
       IF \/ n = 0
          \/ leer.limit > 0 /\ c.total >= leer.limit
          \/ n < PageSize
       THEN \E msgs \in {[i \in 1..Len(c.msgs) |-> Msg(Reverse(c.msgs)[i])]} :
            \E r \in {replay(employees, msgs)} :
              /\ employees' = r.employees
              /\ saveData(r.snaps, weekStartDate)
              /\ leer' = [leer EXCEPT !.pc = "idle",
                                      !.lastId = 0,
                                      !.totalFetched = c.total,
                                      !.messagesToProcess = <<>>,
                                      !.processed = r.processed,
                                      !.size0 = size0,
                                      !.full = full]
              /\ last' = Step("leer-replay", TRUE, msgs, r.processed,
                              r.snaps # <<>>)
       ELSE /\ leer' = [leer EXCEPT !.lastId = LastId(leer, page, n),
                                    !.totalFetched = c.total,
                                    !.messagesToProcess = c.msgs,
                                    !.size0 = size0,
                                    !.full = full]
            /\ last' = Step("leer-fetch", TRUE, <<>>, 0, FALSE)
            /\ UNCHANGED <<employees, disk, writable>>
  /\ UNCHANGED <<probe, weekStartDate, bonusPercentage, now, history, cmds, nextTick,
                 cerrar, testlog, report>>

(***************************************************************************)
(* !cerrar (lines 402-412): the report, two awaits, then resetWeek.        *)
(***************************************************************************)
CmdCerrar(admin) ==
  /\ cmds < MaxCmds
  /\ cerrar = "idle"
  /\ cmds' = cmds + 1
  /\ IF admin
     THEN /\ report' = calculateTotals(employees, bonusPercentage)
          /\ cerrar' = "reply"
     ELSE UNCHANGED <<report, cerrar>>
  /\ last' = Step("cerrar", admin, <<>>, 0, FALSE)
  /\ UNCHANGED <<probe, employees, weekStartDate, bonusPercentage, disk, writable, now, history,
                 nextTick, leer, testlog>>

CerrarReply ==
  /\ cerrar = "reply"
  /\ cerrar' = "send"
  /\ last' = Step("cerrar-reply", TRUE, <<>>, 0, FALSE)
  /\ UNCHANGED <<probe, employees, weekStartDate, bonusPercentage, disk, writable, now, history,
                 cmds, nextTick, leer, testlog, report>>

CerrarSend ==
  /\ cerrar = "send"
  /\ cerrar' = "idle"
  /\ employees' = resetWeek(now).employees
  /\ weekStartDate' = resetWeek(now).weekStartDate
  /\ saveData(<<resetWeek(now).employees>>, resetWeek(now).weekStartDate)
  /\ last' = Step("cerrar-reset", TRUE, <<>>, 0, TRUE)
  /\ UNCHANGED <<probe, bonusPercentage, now, history, cmds, nextTick, leer, testlog,
                 report>>

(***************************************************************************)
(* The scheduler callback (lines 452-467) and the passing of time.  The    *)
(* callback runs in the tick it is due, and is due again MinuteLen ticks   *)
(* (60000 ms) later.                                                       *)
(***************************************************************************)
SchedulerTick ==
  /\ now >= nextTick
  /\ nextTick' = now + MinuteLen
  /\ employees' = tickEffect(employees, weekStartDate, now).employees
  /\ weekStartDate' = tickEffect(employees, weekStartDate, now).weekStartDate
  /\ IF IsCloseTime(now)
     THEN /\ report' = calculateTotals(employees, bonusPercentage)
          /\ saveData(<<employees'>>, weekStartDate')
          /\ last' = Step("auto-close", FALSE, <<>>, 0, TRUE)
     ELSE /\ UNCHANGED <<report, disk, writable>>
          /\ last' = Step("tick", FALSE, <<>>, 0, FALSE)
  /\ UNCHANGED <<probe, bonusPercentage, now, history, cmds, leer, cerrar, testlog>>

Advance ==
  /\ now < StartTime + MaxAdvance
  /\ now < nextTick
  /\ now' = now + 1
  /\ last' = Step("advance", FALSE, <<>>, 0, FALSE)
  /\ UNCHANGED <<probe, employees, weekStartDate, bonusPercentage, disk, writable, history, cmds,
                 nextTick, leer, cerrar, testlog, report>>

Next ==
  \/ \E c \in DOMAIN Texts : PostLog(c, FALSE)
  \/ PostLog(1, TRUE)
  \/ OtherMessage
  \/ \E admin \in BOOLEAN : CmdInfo(admin)
  \/ \E admin \in BOOLEAN : CmdReporte(admin)
  \/ \E admin \in BOOLEAN, c \in TestlogInputs : CmdTestlog(admin, c)
  \/ TestlogRun
  \/ \E admin \in BOOLEAN, newPct \in PercentageInputs : CmdPorcentaje(admin, newPct)
  \/ \E admin \in BOOLEAN, args \in LeerArgs : CmdLeer(admin, args)
  \/ LeerFetch
  \/ \E admin \in BOOLEAN : CmdCerrar(admin)
  \/ CerrarReply
  \/ CerrarSend
  \/ SchedulerTick
  \/ Advance

Spec == Init /\ [][Next]_vars

(***************************************************************************)
(* The bonus computation on its own: any total, any percentage the         *)
(* command accepts, and one report.                                        *)
(***************************************************************************)
\* largest total of sales the bonus computation is run on
MaxTotal == 50

\* an aggregate of one employee whose sales add up to total
OneEmployee(total) ==
  <<[dni   |-> ABC12345,
     name  |-> ABC12345,
     sales |-> IF total = 0
               THEN <<>>
               ELSE <<[amount |-> total, date |-> StartTime,
                       messageId |-> <<"msg", 1>>]>>]>>

InitBonus ==
  /\ employees \in {OneEmployee(total) : total \in 0..MaxTotal}
  /\ weekStartDate = BootTime
  /\ bonusPercentage \in 0..100
  /\ disk = NoFile
  /\ now = StartTime
  /\ history = InitialHistory
  /\ cmds = 0
  /\ nextTick = StartTime
  /\ leer = LeerIdle
  /\ cerrar = "idle"
  /\ testlog = <<>>
  /\ report = <<>>
  /\ writable = TRUE
  /\ probe = NoProbe
  /\ last = Step("start", FALSE, <<>>, 0, FALSE)

\* "!reporte", once
BonusReport ==
  /\ cmds = 0
  /\ CmdReporte(TRUE)

SpecBonus == InitBonus /\ [][BonusReport]_vars

(***************************************************************************)
(* calculateTotals on its own: the aggregate is drawn from the aggregates  *)
(* of up to MaxEmployees employees, each with one of a few lists of sales, *)
(* among them lists with equal sums and the empty list, and "!reporte"     *)
(* reads it once.                                                          *)
(***************************************************************************)
MaxEmployees == 3

XYZ99999 == <<"X","Y","Z","9","9","9","9","9">>
DEF00001 == <<"D","E","F","0","0","0","0","1">>

\* an identifier for the i-th employee of an aggregate, different for
\* different i below 10
TotalsDni(i) ==
  IF i = 1 THEN ABC12345
  ELSE IF i = 2 THEN XYZ99999
  ELSE IF i = 3 THEN DEF00001
  ELSE <<"G","H","I","0","0","0","0">> \o <<DigitChars[(i % 10) + 1]>>

\* a sale event of the given amount
SaleOf(amount, k) ==
  [amount |-> amount, date |-> StartTime, messageId |-> <<"msg", k>>]

\* the lists of sales an employee of the drawn aggregate may hold
SalesLists ==
  {<<>>, <<SaleOf(10, 1)>>, <<SaleOf(20, 1)>>, <<SaleOf(10, 1), SaleOf(10, 2)>>,
   <<SaleOf(30, 1)>>}

\* the aggregate of n employees created in the order of their numbers, the
\* i-th holding the sales lists[i]
Aggregate(n, lists) ==
  [i \in 1..n |-> [dni |-> TotalsDni(i), name |-> TotalsDni(i),
                   sales |-> lists[i]]]

InitTotals ==
  /\ employees \in UNION {{Aggregate(n, lists) : lists \in [1..n -> SalesLists]} :
                          n \in 0..MaxEmployees}
  /\ weekStartDate = BootTime
  /\ bonusPercentage = DefaultPercentage
  /\ disk = NoFile
  /\ now = StartTime
  /\ history = InitialHistory
  /\ cmds = 0
  /\ nextTick = StartTime
  /\ leer = LeerIdle
  /\ cerrar = "idle"
  /\ testlog = <<>>
  /\ report = <<>>
  /\ writable = TRUE
  /\ probe = NoProbe
  /\ last = Step("start", FALSE, <<>>, 0, FALSE)

SpecTotals == InitTotals /\ [][BonusReport]_vars

(***************************************************************************)
(* The extractors on their own: probe records one call of an extractor on  *)
(* a text built for it.                                                    *)
(***************************************************************************)
InitProbe ==
  /\ Init
  /\ writable = TRUE

\* the variables a call of an extractor leaves alone
state ==
  <<employees, weekStartDate, bonusPercentage, disk, now, history, cmds,
    nextTick, leer, cerrar, testlog, report, writable, last>>

\* the characters of an identifier, in lower case
DniChars == <<"a","b","c","1","2","3","4","5">>

\* a space where gap holds
Gap(gap) == IF gap THEN <<" ">> ELSE <<>>

\* the bracketed identifier from its k-th character on, with a space before
\* the k-th character where gaps[k] holds and one before the closing bracket
\* where the last gap holds
RECURSIVE DniFrom(_, _, _)
DniFrom(k, gaps, upper) ==
  IF k > Len(DniChars)
  THEN Gap(gaps[k]) \o <<"]">>
  ELSE Gap(gaps[k])
         \o <<IF upper THEN toUpperChar(DniChars[k]) ELSE DniChars[k]>>
         \o DniFrom(k + 1, gaps, upper)

DniText(gaps, upper) == <<"[">> \o DniFrom(1, gaps, upper)

\* extractDNI called on a bracketed identifier
ProbeDNI(gaps, upper) ==
  /\ probe = NoProbe
  /\ \E text \in {DniText(gaps, upper)} :
       probe' = [fn |-> "extractDNI", text |-> text, about |-> DniChars,
                 out |-> extractDNI(text)]
  /\ UNCHANGED state

SpecDNI ==
  InitProbe
    /\ [][\E gaps \in [1..(Len(DniChars) + 1) -> BOOLEAN], upper \in BOOLEAN :
            ProbeDNI(gaps, upper)]_vars

\* numerals: a head of one to three digits, up to MaxGroups groups of three
\* digits each after a comma, and no fraction or one of two digits
MaxGroups == 5

AmountHeads == {<<"1">>, <<"9">>, <<"1","2">>}

AmountGroups == {<<"0","0","0">>, <<"2","3","4">>, <<"9","9","9">>}

AmountFractions == {<<>>, <<".","9","9">>}

GroupLists == UNION {[1..n -> AmountGroups] : n \in 0..MaxGroups}

\* the groups from the k-th on, each after sep
RECURSIVE JoinFrom(_, _, _)
JoinFrom(k, groups, sep) ==
  IF k > Len(groups)
  THEN <<>>
  ELSE sep \o groups[k] \o JoinFrom(k + 1, groups, sep)

AmountText(head, groups, fraction, space) ==
  <<"$">> \o Gap(space) \o head \o JoinFrom(1, groups, <<",">>) \o fraction

\* texts without a "$" followed by a digit
NoAmountTexts ==
  {<<>>,
   <<"1",",","2","3","4",".","9","9">>,
   <<"$"," ","a","1">>,
   <<"$",",","2","3","4">>,
   <<"1","$">>}

\* extractAmount called on a numeral
ProbeAmount(head, groups, fraction, space) ==
  /\ probe = NoProbe
  /\ \E text \in {AmountText(head, groups, fraction, space)} :
       probe' = [fn |-> "extractAmount", text |-> text,
                 about |-> head \o JoinFrom(1, groups, <<>>),
                 out |-> extractAmountDouble(text)]
  /\ UNCHANGED state

\* extractAmount called on a text without a numeral
ProbeNoAmount(text) ==
  /\ probe = NoProbe
  /\ probe' = [fn |-> "extractAmount", text |-> text, about |-> <<>>,
               out |-> extractAmountDouble(text)]
  /\ UNCHANGED state

NextAmount ==
  \/ \E head \in AmountHeads, groups \in GroupLists,
        fraction \in AmountFractions, space \in BOOLEAN :
       ProbeAmount(head, groups, fraction, space)
  \/ \E text \in NoAmountTexts : ProbeNoAmount(text)

SpecAmount == InitProbe /\ [][NextAmount]_vars

(***************************************************************************)
(* The bot started on a snapshot file it did not write: loadData (lines    *)
(* 36-48) takes data.employees as it is, here one record with a name and   *)
(* no sales list.  The log channel holds up to MaxLoaded messages and an   *)
(* administrator runs "!leer".                                             *)
(***************************************************************************)
MaxLoaded == 3

LoadedEmployees == <<[dni |-> ABC12345, name |-> ABC12345]>>

\* the texts of the messages of the log channel in this start
LoadedTexts == {1, 2, 3, 5}

InitLoaded ==
  /\ employees = LoadedEmployees
  /\ weekStartDate = BootTime
  /\ bonusPercentage = DefaultPercentage
  /\ disk = Snapshot(LoadedEmployees, BootTime)
  /\ now = StartTime
  /\ history \in UNION {{[i \in 1..n |-> [content |-> cs[i], createdAt |-> i,
                                          bot |-> FALSE]] :
                           cs \in [1..n -> LoadedTexts]} : n \in 1..MaxLoaded}
  /\ cmds = 0
  /\ nextTick = StartTime
  /\ leer = LeerIdle
  /\ cerrar = "idle"
  /\ testlog = <<>>
  /\ report = <<>>
  /\ writable = TRUE
  /\ probe = NoProbe
  /\ last = Step("start", FALSE, <<>>, 0, FALSE)

NextLoaded ==
  \/ \E args \in LeerArgs : CmdLeer(TRUE, args)
  \/ LeerFetch

SpecLoaded == InitLoaded /\ [][NextLoaded]_vars

(***************************************************************************)
(* The scheduler under a clock that is adjusted.  The callback reads the   *)
(* wall clock (line 453) while setInterval counts 60000 ms on the          *)
(* monotonic clock: when the wall clock is set back, the callback that     *)
(* follows may read a minute that the one before it has read.              *)
(***************************************************************************)
\* the wall clock is set back by one tick; the callback is due after the
\* same delay as before
ClockBack ==
  /\ now > StartTime
  /\ now' = now - 1
  /\ nextTick' = nextTick - 1
  /\ last' = Step("clock-back", FALSE, <<>>, 0, FALSE)
  /\ UNCHANGED <<probe, employees, weekStartDate, bonusPercentage, disk,
                 writable, history, cmds, leer, cerrar, testlog, report>>

\* the log channel, "!testlog" and "!reporte", the scheduler and the clock:
\* the steps of the bot without "!cerrar", so that every reset is one of the
\* scheduler
NextDrift ==
  \/ \E c \in DOMAIN Texts : PostLog(c, FALSE)
  \/ \E admin \in BOOLEAN, c \in TestlogInputs : CmdTestlog(admin, c)
  \/ TestlogRun
  \/ \E admin \in BOOLEAN : CmdReporte(admin)
  \/ SchedulerTick
  \/ Advance
  \/ ClockBack

SpecDrift == Init /\ [][NextDrift]_vars

(***************************************************************************)
(* The backfill on a history of several pages.  The log channel holds up   *)
(* to MaxHistory messages when the bot starts, the first ones posted       *)
(* before Today and the others after; an administrator runs "!leer", and   *)
(* messages may arrive while it fetches.  Every request of a page is       *)
(* answered, the await of line 348 resolves, and the source returns full   *)
(* pages, which is what keeps the loop going.                              *)
(***************************************************************************)
MaxHistory == 4

\* the texts of the messages the log channel holds at the start
HistoryTexts == {1, 5}

\* when a message posted after Today was posted
AfterToday == Today + 1

\* a history of n messages with the given texts, the first old of them
\* posted before Today
HistoryOf(n, cs, old) ==
  [i \in 1..n |-> [content |-> cs[i],
                   createdAt |-> IF i <= old THEN Today - 1 ELSE AfterToday,
                   bot |-> FALSE]]

InitBackfill ==
  /\ employees = <<>>
  /\ weekStartDate = BootTime
  /\ bonusPercentage = DefaultPercentage
  /\ disk = NoFile
  /\ now = StartTime
  /\ history \in UNION {{HistoryOf(n, cs, old) :
                           cs \in [1..n -> HistoryTexts], old \in 0..n} :
                        n \in 1..MaxHistory}
  /\ cmds = 0
  /\ nextTick = StartTime
  /\ leer = LeerIdle
  /\ cerrar = "idle"
  /\ testlog = <<>>
  /\ report = <<>>
  /\ writable = TRUE
  /\ probe = NoProbe
  /\ last = Step("start", FALSE, <<>>, 0, FALSE)

\* one turn of the fetch loop on a page that holds every message the source
\* can put in it: a shorter page ends the loop at once (lines 349 and 361)
FullFetch ==
  /\ LeerFetch
  /\ leer'.full

NextBackfill ==
  \/ \E args \in LeerArgs : CmdLeer(TRUE, args)
  \/ FullFetch
  \/ \E c \in HistoryTexts : PostLog(c, FALSE)

SpecBackfill ==
  InitBackfill /\ [][NextBackfill]_vars /\ WF_vars(FullFetch)

(***************************************************************************)
(* Properties.  last describes the handler step that led to the state:     *)
(* its operation, whether the caller was an administrator, the messages    *)
(* it ran through processLog, how many of them processLog returned true    *)
(* for, and whether saveData was called.                                   *)
(***************************************************************************)
\* the steps that run processLog on the messages of last.msgs
PipelineOps == {"live", "testlog-run", "leer-replay"}

\* the sale events of the aggregate, as <<employee index, event index>>
Events(emps) ==
  UNION {{<<i, j>> : j \in 1..Len(emps[i].sales)} : i \in 1..Len(emps)}

EventAt(emps, x) == emps[x[1]].sales[x[2]]

RECURSIVE EventCount(_)
EventCount(emps) ==
  IF emps = <<>> THEN 0 ELSE Len(Head(emps).sales) + EventCount(Tail(emps))

\* the sum of the totalSales of all employees
RECURSIVE TotalSales(_)
TotalSales(emps) ==
  IF emps = <<>>
  THEN 0
  ELSE SumAmounts(Head(emps).sales) + TotalSales(Tail(emps))

IsPrefix(s, t) == Len(s) <= Len(t) /\ SubSeq(t, 1, Len(s)) = s

\* t holds the patterns of pats one after the other, from index from on
RECURSIVE ContainsInOrder(_, _, _)
ContainsInOrder(t, from, pats) ==
  IF pats = <<>>
  THEN TRUE
  ELSE \E i \in from..Len(t) :
         /\ At(t, i, Head(pats))
         /\ ContainsInOrder(t, i + Len(Head(pats)), Tail(pats))

\* the texts whose normalized form reads
\* "ha pagado una factura ... de [ABC12345] ... $150"
NamedSaleTexts ==
  {c \in DOMAIN Texts :
     ContainsInOrder(cleanText(Texts[c]), 1,
                     <<KwPagado, KwDe \o ABC12345 \o <<"]">>, <<"$","1","5","0">>>>)}

\* C1: a live message whose text reads "ha pagado una factura ... de
\* [ABC12345] ... $150", whatever stands in the gaps, leaves exactly one sale
\* event of that message in the aggregate, under ABC12345 and of amount 150.
C1_SaleUnderNamedIdentifier ==
  (last.op = "live" /\ last.msgs[1].content \in NamedSaleTexts) =>
    LET hits == {x \in Events(employees) :
                   EventAt(employees, x).messageId = last.msgs[1].id}
    IN  /\ Cardinality(hits) = 1
        /\ \A x \in hits : /\ employees[x[1]].dni = ABC12345
                           /\ EventAt(employees, x).amount = 150

\* the sale candidates processLog does not record: no identifier, or no
\* amount above zero
RejectedSaleTexts ==
  {c \in DOMAIN Texts :
     /\ Extracted[c].sale
     /\ ~Truthy(Extracted[c].dni) \/ Extracted[c].amount = 0}

\* C2: a step that runs only rejected sale candidates through processLog
\* changes nothing in the aggregate (no sale, no new employee, no name), and
\* processLog returns false for each of them.
C2_RejectedSaleMutatesNothing ==
  [][(/\ last'.op \in PipelineOps
      /\ last'.msgs # <<>>
      /\ \A k \in 1..Len(last'.msgs) : last'.msgs[k].content \in RejectedSaleTexts)
     => (employees' = employees /\ last'.processed = 0)]_vars

\* C3: right after resetWeek, by "!cerrar" or by the scheduler, employees is
\* empty and weekStartDate is the time of the reset; and both stay so through
\* every later step that is neither a reset nor one that accepts an event.
C3_ResetEmptiesUntilNextEvent ==
  [][/\ last'.op \in ResetOps => employees' = <<>> /\ weekStartDate' = now'
     /\ (last'.op \notin ResetOps /\ ~last'.saved)
        => UNCHANGED <<employees, weekStartDate>>]_vars

\* a close whose report listed employees has run resetWeek
C3_Witness == last.op \in ResetOps /\ report # <<>>

\* C4: a step other than a reset keeps every employee at its place and every
\* sale event it had, in order, adding events only at the end; and every
\* amount recorded is a positive integer.
C4_SalesOnlyAppended ==
  [][/\ \A x \in Events(employees') :
          EventAt(employees', x).amount \in Nat \ {0}
     /\ last'.op \notin ResetOps =>
          /\ Len(employees) <= Len(employees')
          /\ \A i \in 1..Len(employees) :
               /\ employees'[i].dni = employees[i].dni
               /\ IsPrefix(employees[i].sales, employees'[i].sales)]_vars

\* two employees, one of them with a second sale appended to the first
C4_Witness ==
  /\ Len(employees) >= 2
  /\ \E i \in 1..Len(employees) : Len(employees[i].sales) >= 2

\* C5: only the steps that run resetWeek change weekStartDate.
C5_PeriodStartOnlyByReset ==
  [][weekStartDate' # weekStartDate => last'.op \in ResetOps]_vars

\* after a reset, a backfill that recorded a sale has left weekStartDate at
\* the time of the reset
C5_Witness ==
  /\ weekStartDate # BootTime
  /\ last.op = "leer-replay"
  /\ last.processed > 0

\* the texts processLog records as a sale
AcceptedTexts ==
  {c \in DOMAIN Texts :
     Extracted[c].sale /\ Truthy(Extracted[c].dni) /\ Extracted[c].amount > 0}

\* the amounts of the accepted sales among msgs, added up
RECURSIVE AcceptedAmount(_)
AcceptedAmount(msgs) ==
  IF msgs = <<>>
  THEN 0
  ELSE (IF Head(msgs).content \in AcceptedTexts
        THEN Extracted[Head(msgs).content].amount
        ELSE 0) + AcceptedAmount(Tail(msgs))

\* C6: every accepted sale message run through processLog adds one sale
\* event and its amount to the totals, whether or not the aggregate already
\* holds an event of the same messageId.
C6_NoDeduplication ==
  [][last'.op \in PipelineOps =>
       /\ EventCount(employees') =
            EventCount(employees)
            + Cardinality({k \in 1..Len(last'.msgs) :
                             last'.msgs[k].content \in AcceptedTexts})
       /\ TotalSales(employees') =
            TotalSales(employees) + AcceptedAmount(last'.msgs)]_vars

\* an employee holds two sale events of the same message
C6_Witness ==
  \E i \in 1..Len(employees) :
    \E j, k \in 1..Len(employees[i].sales) :
      /\ j < k
      /\ employees[i].sales[j].messageId = employees[i].sales[k].messageId

\* C7: no sale event of the aggregate comes from a message of the log
\* channel whose author is a bot.
C7_NoEventFromBotMessage ==
  \A x \in Events(employees) :
    LET id == EventAt(employees, x).messageId
    IN  id[1] = "msg" => ~history[id[2]].bot

\* the steps of the command handlers that run for any caller
CommandOps ==
  {"info", "reporte", "testlog", "testlog-run", "porcentaje", "leer", "cerrar"}

\* C8: a step of a command sent by a caller who is not an administrator
\* leaves employees, weekStartDate and bonusPercentage unchanged.
C8_NonAdminChangesNothing ==
  [][(last'.op \in CommandOps /\ ~last'.admin)
     => UNCHANGED <<employees, weekStartDate, bonusPercentage>>]_vars

\* C9: "!leer cantidad N" never collects more than N messages; when it has
\* finished, the count of sales it reports is at most the count of messages
\* it reports, and with full pages it collected exactly min(N, size of the
\* history when it began).
C9_CountBackfillBounded ==
  leer.sub = "cantidad" =>
    /\ leer.totalFetched <= leer.limit
    /\ leer.pc = "idle" =>
         /\ leer.processed <= leer.totalFetched
         /\ leer.full => leer.totalFetched = Min(leer.limit, leer.size0)

\* a by-count backfill over full pages has finished on a history that held
\* more messages than it was asked for, and recorded a sale
C9_Witness ==
  /\ leer.pc = "idle"
  /\ leer.sub = "cantidad"
  /\ leer.full
  /\ leer.size0 > leer.limit
  /\ leer.processed > 0

\* C10: the bonus of every line of the report is totalSales * rate / 100
\* rounded half up, floor((totalSales * rate + 50) / 100).
C10_BonusRoundsHalfUp ==
  \A k \in 1..Len(report) :
    report[k].bonus = (report[k].totalSales * bonusPercentage + 50) \div 100

\* the place of employee i in a report sorted by total, largest first, with
\* equal totals in the order the records were created
PlaceOf(emps, i) ==
  1 + Cardinality({j \in 1..Len(emps) :
                     \/ SumAmounts(emps[j].sales) > SumAmounts(emps[i].sales)
                     \/ /\ j < i
                        /\ SumAmounts(emps[j].sales) = SumAmounts(emps[i].sales)})

\* C11: the report holds exactly one line per employee; the line of an
\* employee carries the count and the sum of that employee's sale events;
\* the lines are ordered by total, largest first, and lines with equal totals
\* keep the order in which the records were created.
C11_OneLinePerEmployeeSortedStable ==
  last.op = "reporte" =>
    /\ Len(report) = Len(employees)
    /\ \A i \in 1..Len(employees) :
         /\ report[PlaceOf(employees, i)].dni = employees[i].dni
         /\ report[PlaceOf(employees, i)].name = employees[i].name
         /\ report[PlaceOf(employees, i)].salesCount = Len(employees[i].sales)
         /\ report[PlaceOf(employees, i)].totalSales =
              SumAmounts(employees[i].sales)

\* a report of three employees where the one created last sold most and the
\* two created before it have equal totals from different numbers of sales
C11_Witness ==
  /\ last.op = "reporte"
  /\ Len(report) = 3
  /\ report[1].dni = DEF00001
  /\ report[2].dni = ABC12345
  /\ report[3].dni = XYZ99999
  /\ report[2].totalSales = report[3].totalSales
  /\ report[2].salesCount # report[3].salesCount
  /\ report[1].totalSales > report[2].totalSales

\* C12: extractDNI yields ABC12345 for the identifier abc12345 in either
\* case with whitespace before, between or after any of its characters.
C12_DniWhitespaceAnywhere ==
  probe.fn = "extractDNI" => probe.out = ABC12345

\* C13 as stated: for every numeral extractAmount returns the integer part
\* with the separators removed, and it returns 0 for a text without a
\* numeral.
C13_AmountIsIntegerPart ==
  probe.fn = "extractAmount" => ToInteger(probe.out) = DecimalBits(probe.about)

\* C13, for the integer parts binary64 holds exactly: for every numeral whose
\* integer part is below 2^53 extractAmount returns the integer part with the
\* separators removed, whatever the fraction, and it returns 0 for a text
\* without a numeral.
C13_AmountTruncatesBelowPrecision ==
  (probe.fn = "extractAmount" /\ Len(DecimalBits(probe.about)) <= Precision)
    => ToInteger(probe.out) = DecimalBits(probe.about)

\* extractAmount was called on "$1,234.99" and returned 1234
C13_Witness ==
  /\ probe.fn = "extractAmount"
  /\ probe.text = <<"$","1",",","2","3","4",".","9","9">>
  /\ probe.out.e = 0
  /\ Value(probe.out.m) = 1234

\* the texts of a name update: a naming phrase, not a sale candidate, and
\* both an identifier and a name
NameUpdateTexts ==
  {c \in DOMAIN Texts : /\ Extracted[c].naming
                        /\ ~Extracted[c].sale
                        /\ Truthy(Extracted[c].dni)
                        /\ Truthy(Extracted[c].name)}

\* emps holds exactly one record of dni, named name
NamedAs(emps, dni, name) ==
  /\ \E i \in 1..Len(emps) : emps[i].dni = dni /\ emps[i].name = name
  /\ Cardinality({i \in 1..Len(emps) : emps[i].dni = dni}) = 1

\* C14: a pipeline step on one name-update message sets the name of that
\* employee to the extracted name, creating the record with no sales when the
\* identifier is new; it leaves the sales of every employee and the name of
\* every other employee as they were, and processLog returns false.
C14_NameUpdateOnlySetsName ==
  [][(/\ last'.op \in PipelineOps
      /\ Len(last'.msgs) = 1
      /\ last'.msgs[1].content \in NameUpdateTexts)
     => LET x == Extracted[last'.msgs[1].content]
        IN  /\ NamedAs(employees', x.dni, x.name)
            /\ last'.processed = 0
            /\ Len(employees') =
                 Len(employees) + (IF IndexOf(employees, x.dni) = 0 THEN 1 ELSE 0)
            /\ IndexOf(employees, x.dni) = 0
                 => employees'[Len(employees')] =
                      [dni |-> x.dni, name |-> x.name, sales |-> <<>>]
            /\ \A i \in 1..Len(employees) :
                 /\ employees'[i].dni = employees[i].dni
                 /\ employees'[i].sales = employees[i].sales
                 /\ employees[i].dni # x.dni
                      => employees'[i].name = employees[i].name]_vars

\* a name update has renamed an employee who holds a sale, next to another
\* employee
C14_Witness ==
  /\ last.op \in PipelineOps
  /\ Len(last.msgs) = 1
  /\ last.msgs[1].content \in NameUpdateTexts
  /\ Len(employees) = 2
  /\ \E i \in 1..2 :
       /\ employees[i].dni = Extracted[last.msgs[1].content].dni
       /\ employees[i].name = Extracted[last.msgs[1].content].name
       /\ employees[i].sales # <<>>

\* C15: in a run where every write of the snapshot fails, a handler that
\* saves still runs to its end: the pipeline applies to the aggregate what
\* processLog computes and counts what it returns, a reset empties the
\* aggregate, and this stays so after any number of failed writes.
C15_WriteFailureNotFatal ==
  ~writable =>
    /\ testlog # <<>> =>
         ENABLED (/\ TestlogRun
                  /\ employees' =
                       processLog(employees, testlog[1].message).employees
                  /\ last'.processed =
                       IF processLog(employees, testlog[1].message).ret
                       THEN 1 ELSE 0)
    /\ Len(history) - Len(InitialHistory) < MaxMsgs =>
         \A c \in DOMAIN Texts :
           ENABLED (/\ PostLog(c, FALSE)
                    /\ employees' =
                         processLog(employees, last'.msgs[1]).employees
                    /\ last'.processed =
                         IF processLog(employees, last'.msgs[1]).ret
                         THEN 1 ELSE 0)
    /\ cerrar = "send" =>
         ENABLED (CerrarSend /\ employees' = <<>> /\ weekStartDate' = now)

\* every write of the snapshot has failed, the last step called saveData, and
\* an employee holds a second sale, accepted after the write of the first
\* one failed
C15_Witness ==
  /\ ~writable
  /\ disk = NoFile
  /\ last.saved
  /\ last.op \in PipelineOps
  /\ \E i \in 1..Len(employees) : Len(employees[i].sales) >= 2

\* processLog over every message of a list in order, a call that throws
\* being passed over
RECURSIVE replayEach(_, _)
replayEach(emps, msgs) ==
  IF msgs = <<>>
  THEN emps
  ELSE replayEach(processLog(emps, Head(msgs)).employees, Tail(msgs))

\* C16: the replay of a backfill runs every collected message through
\* processLog, the messages after one for which processLog throws included.
C16_BatchSurvivesFailure ==
  [][last'.op = "leer-replay"
       => employees' = replayEach(employees, last'.msgs)]_vars

\* C17: the scheduler resets at most once per minute of the weekly close: a
\* callback that resets does not read a minute in which the period was
\* already reset.
C17_CloseOncePerMinute ==
  [][last'.op = "auto-close"
       => weekStartDate \div MinuteLen # now \div MinuteLen]_vars

\* C18: a by-date backfill requests no further page once it has fetched a
\* message older than the cutoff: the fetch loop is not about to request the
\* page before a message that is older than the cutoff.
C18_DateBackfillStopsAtCutoff ==
  ~(/\ leer.pc = "fetch"
    /\ leer.sub = "fecha"
    /\ leer.lastId # 0
    /\ history[leer.lastId].createdAt < leer.startDate)

\* C19: the replay of a backfill runs the collected messages oldest first,
\* and of two sale events it appends to the sales of one employee the one of
\* the older message comes first.
C19_BackfillOldestFirst ==
  [][last'.op = "leer-replay"
       => /\ \A j \in 1..(Len(last'.msgs) - 1) :
               /\ last'.msgs[j].id[2] < last'.msgs[j + 1].id[2]
               /\ last'.msgs[j].createdAt <= last'.msgs[j + 1].createdAt
          /\ \A i \in 1..Len(employees') :
               \A j, k \in 1..Len(employees'[i].sales) :
                 (/\ j < k
                  /\ i <= Len(employees) => j > Len(employees[i].sales))
                   => employees'[i].sales[j].messageId[2]
                        < employees'[i].sales[k].messageId[2]]_vars

\* a backfill has replayed two messages and an employee holds the sale of the
\* older one before the sale of the newer one
C19_Witness ==
  /\ last.op = "leer-replay"
  /\ Len(last.msgs) = 2
  /\ last.processed = 2
  /\ \E i \in 1..Len(employees) :
       \E j \in 1..(Len(employees[i].sales) - 1) :
         /\ employees[i].sales[j].messageId = last.msgs[1].id
         /\ employees[i].sales[j + 1].messageId = last.msgs[2].id

\* C20: in a run where the writes of the snapshot succeed, the snapshot file
\* holds the employees and the period start of the memory after every step:
\* no step changes the aggregate without writing it, and before the first
\* write the aggregate is as it was at the start.
C20_WriteThrough ==
  writable =>
    IF disk = NoFile
    THEN employees = <<>> /\ weekStartDate = BootTime
    ELSE disk = Snapshot(employees, weekStartDate)

\* a backfill has saved twice in one replay, the writes succeeding, and an
\* employee holds a sale
C20_Witness ==
  /\ writable
  /\ last.op = "leer-replay"
  /\ last.saved
  /\ last.processed = 2
  /\ disk # NoFile
  /\ \E i \in 1..Len(employees) : employees[i].sales # <<>>

\* C21: every sale event of the aggregate is dated at or after the start of
\* the current period.
C21_SalesWithinPeriod ==
  \A i \in 1..Len(employees) :
    \A j \in 1..Len(employees[i].sales) :
      employees[i].sales[j].date >= weekStartDate

\* C22: every sale event a close discards was in the aggregate when the
\* report of that close was generated: at a reset, the report generated last
\* has a line for every employee of the aggregate that counts all the sale
\* events of that employee.
C22_NoSaleLostAtClose ==
  [][last'.op \in ResetOps
       => \A i \in 1..Len(employees) :
            \E k \in 1..Len(report') :
              /\ report'[k].dni = employees[i].dni
              /\ report'[k].salesCount >= Len(employees[i].sales)]_vars

\* C23: the replay of a backfill is one step of the bot: the aggregate after
\* it is the aggregate at the end of the fetch loop with the collected
\* messages run through processLog in order, no message, reset, scheduler
\* callback or command coming between; the sale events it adds are as many
\* as the count of sales it reports.
C23_ReplayAtomic ==
  [][last'.op = "leer-replay"
       => /\ employees' = replayEach(employees, last'.msgs)
          /\ EventCount(employees') - EventCount(employees) = last'.processed
          /\ leer'.processed = last'.processed
          /\ leer'.pc = "idle"
          /\ UNCHANGED <<weekStartDate, history, now, nextTick, cerrar,
                         testlog, report, bonusPercentage>>]_vars

\* a backfill has replayed two sales into the sales of an employee to whom
\* "!testlog" had added one
C23_Witness ==
  /\ last.op = "leer-replay"
  /\ last.processed = 2
  /\ Len(last.msgs) = 2
  /\ \E i \in 1..Len(employees) :
       /\ Len(employees[i].sales) = 3
       /\ employees[i].sales[1].messageId[1] = "test"
       /\ employees[i].sales[2].messageId = last.msgs[1].id
       /\ employees[i].sales[3].messageId = last.msgs[2].id

\* C24: a backfill that has begun to fetch ends: the fetch loop leaves after
\* finitely many requests of a page, by count and by date, and the handler
\* has then its counts.
C24_BackfillTerminates ==
  (leer.pc = "fetch") ~> (leer.pc = "idle")

\* a by-date backfill has ended after it collected more messages than a page
\* holds
C24_Witness ==
  /\ leer.pc = "idle"
  /\ leer.sub = "fecha"
  /\ last.op = "leer-replay"
  /\ leer.totalFetched > PageSize
=============================================================================
